---- MODULE Spec2Model ----
(***************************************************************************)
(* Frame relay of demo_ws.                                                 *)
(*                                                                         *)
(* client.py: send_frames runs a producer loop and a sender_task on one    *)
(* asyncio event loop, joined by send_queue (asyncio.Queue(maxsize=4)).    *)
(* server.py: ws_stream coroutines overwrite the latest-frame slot,        *)
(* ws_view coroutines and the _display_loop thread read it.                *)
(*                                                                         *)
(* The two files are two programs; a behaviour of this model is a run of   *)
(* one of them (variable program).  Coroutines of one event loop           *)
(* interleave only at their awaits, so a client action is the code from    *)
(* one await to the next.  Frames are opaque bytes; the model names a      *)
(* frame by its ordinal (the n-th frame encoded, the n-th message          *)
(* received), which is the sequence id of the specification.               *)
(***************************************************************************)
EXTENDS Integers, Sequences, FiniteSets, TLC

\* Frames the producer loop encodes in one run of the client.
MaxProduce == 6

\* asyncio.Queue(maxsize=4)
QueueMaxSize == 4

\* Messages the uploaders send in one run of the server.
MaxUploads == 3

\* Python's None for a frame (frames are numbered from 1).
None == 0

VARIABLES
    program,        \* "client" | "server": which file is running
    \* ---- client.py, send_frames ----
    ppc,            \* producer loop: "loop" | "encode" | "sleep" | "closed" | "exited"
    spc,            \* sender_task: "pending" | "get" | "send" | "done" | "cancelled"
    send_queue,     \* contents of send_queue, head first
    stop_event,     \* stop_event.is_set()
    produced,       \* frames encoded successfully so far
    sent_count,     \* sent_count
    got,            \* frames sender_task took from send_queue, in order
    cancel_req,     \* sender.cancel() was called on a task that had not ended
    wstalled,       \* the transport write in flight will never complete
    finally_runs,   \* times sender_task's finally block ran
    ws_open,        \* the connection of websockets.connect(uri) is open
    evicted,        \* frames the publish step removed from or kept out of send_queue
    \* ---- server.py ----
    latest_frame_bytes,   \* _latest_frame_bytes (None, or the frame)
    latest_frame_id,      \* _latest_frame_id
    latest_lock,          \* holder of _latest_lock, or "free"
    network_lock,         \* holder of _network_lock, or "free"
    recv_lock,            \* holder of _recv_lock, or "free"
    network_total_bytes,  \* _network_total_bytes
    recv_total_count,     \* _recv_total_count
    received,             \* messages receive_bytes() has returned, all uploaders
    running,              \* the coroutine the event loop is running, or "none"
    upc,                  \* ws_stream, per uploader: position
    u_data,               \* ws_stream, per uploader: data
    vpc,                  \* ws_view, per viewer: position ("cancelled": ended by CancelledError)
    v_data,               \* ws_view, per viewer: data
    v_fid,                \* ws_view, per viewer: fid
    prev_id,              \* ws_view, per viewer: prev_id
    v_sent,               \* per viewer: fid of the last send_bytes that returned
    dpc,                  \* _display_loop: position
    d_frame,              \* _display_loop: frame (None, or the frame decoded)
    last_id,              \* _display_loop: last_id
    d_decoded             \* _latest_frame_id at the last imdecode of _display_loop

clientVars == <<ppc, spc, send_queue, stop_event, produced, sent_count, got,
                cancel_req, wstalled, finally_runs, ws_open, evicted>>

slot == <<latest_frame_bytes, latest_frame_id>>
stats == <<network_lock, recv_lock, network_total_bytes, recv_total_count>>
upl == <<upc, u_data, received>>
view == <<vpc, v_data, v_fid, prev_id, v_sent>>
disp == <<dpc, d_frame, last_id, d_decoded>>

serverVars == <<slot, latest_lock, stats, running, upl, view, disp>>

vars == <<program, clientVars, serverVars>>

----------------------------------------------------------------------------
\* client.py

IsClient == program = "client"

\* the frames in a queue
Range(q) == {q[i] : i \in 1..Len(q)}

\* send_queue.put_nowait(data) raises QueueFull
QueueFull(q) == Len(q) >= QueueMaxSize

\* a get that returns the newest frame instead of the oldest
QueueGetNewest(q) == q[Len(q)]

\* send_queue.get_nowait() / the value of await send_queue.get()
QueueGet(q) == Head(q)

\* the queue after a get
QueueRest(q) == Tail(q)

\* an offer that keeps the queued frames and drops the new one when full
OfferDropNewest(q, f) == IF Len(q) >= QueueMaxSize THEN q ELSE Append(q, f)

\* an offer that empties a full queue to make room
OfferClearsOnFull(q, f) == IF Len(q) >= QueueMaxSize THEN <<f>> ELSE Append(q, f)

\* an offer that evicts the oldest frame and does not put again
OfferNoRetry(q, f) == IF Len(q) >= QueueMaxSize THEN Tail(q) ELSE Append(q, f)

\* an offer into a queue created without maxsize
OfferUnbounded(q, f) == Append(q, f)

\* lines 174-185: put_nowait; on QueueFull get_nowait (drop the oldest) and
\* put_nowait again; a failure of the retry is swallowed.
Offer(q, f) ==
    IF ~QueueFull(q)
    THEN Append(q, f)
    ELSE LET q2 == IF q = <<>> THEN q ELSE QueueRest(q)
         IN  IF ~QueueFull(q2) THEN Append(q2, f) ELSE q2

\* a cancel that is requested even of a task that has ended
TaskCancelEnded(s) == TRUE

\* a teardown that forgets sender.cancel()
TaskCancelNever(s) == FALSE

\* Task.cancel(): requests cancellation unless the task has already ended
TaskCancel(s) == s \notin {"done", "cancelled"}

\* lines 236-244: the producer's finally block (no await inside)
Teardown ==
    /\ stop_event' = TRUE
    /\ cancel_req' = (cancel_req \/ TaskCancel(spc))
    /\ ppc' = "closed"

\* while not stop_event.is_set(): capture succeeded, await the encoder
ProducerCapture ==
    /\ IsClient
    /\ ppc \in {"loop", "sleep"}
    /\ ~stop_event
    /\ produced < MaxProduce
    /\ ppc' = "encode"
    /\ UNCHANGED <<program, serverVars, ws_open, evicted, spc, send_queue, stop_event, produced, sent_count,
                   got, cancel_req, wstalled, finally_runs>>

\* cap.read() / sct.grab() failed: break, then finally
ProducerCaptureFail ==
    /\ IsClient
    /\ ppc \in {"loop", "sleep"}
    /\ ~stop_event
    /\ Teardown
    /\ UNCHANGED <<program, serverVars, ws_open, evicted, spc, send_queue, produced, sent_count, got,
                   wstalled, finally_runs>>

\* the while condition is false: sender_task has set stop_event
ProducerSeesStop ==
    /\ IsClient
    /\ ppc \in {"loop", "sleep"}
    /\ stop_event
    /\ Teardown
    /\ UNCHANGED <<program, serverVars, ws_open, evicted, spc, send_queue, produced, sent_count, got,
                   wstalled, finally_runs>>

\* a publish that waits for room: await send_queue.put(data)
PublishBlocking(f) ==
    /\ Len(send_queue) < QueueMaxSize
    /\ send_queue' = Append(send_queue, f)

\* lines 172-185: the publish step for frame f
Publish(f) == send_queue' = Offer(send_queue, f)

\* a publish without the except clauses: QueueFull ends the producer loop
ProducerPublishRaises ==
    /\ IsClient
    /\ ppc = "encode"
    /\ produced' = produced + 1
    /\ IF QueueFull(send_queue)
       THEN /\ Teardown
            /\ UNCHANGED <<send_queue, evicted>>
       ELSE /\ send_queue' = Append(send_queue, produced + 1)
            /\ evicted' = evicted
            /\ \E key \in {"q", "none"} :
                  IF key = "q"
                  THEN Teardown
                  ELSE ppc' = "sleep" /\ UNCHANGED <<stop_event, cancel_req>>
    /\ UNCHANGED <<program, serverVars, ws_open, spc, sent_count, got, wstalled,
                   finally_runs>>

\* imencode succeeded: publish, status window, then 'q' or the sleep
ProducerPublish ==
    /\ IsClient
    /\ ppc = "encode"
    /\ produced' = produced + 1
    /\ Publish(produced + 1)
    /\ \E key \in {"q", "none"} :
          IF key = "q"
          THEN Teardown
          ELSE ppc' = "sleep" /\ UNCHANGED <<stop_event, cancel_req>>
    /\ evicted' = evicted \cup ((Range(send_queue) \cup {produced + 1})
                                  \ Range(send_queue'))
    /\ UNCHANGED <<program, serverVars, ws_open, spc, sent_count, got, wstalled,
                   finally_runs>>

\* imencode returned success = False: the frame is skipped
ProducerSkipFrame ==
    /\ IsClient
    /\ ppc = "encode"
    /\ \E key \in {"q", "none"} :
          IF key = "q"
          THEN Teardown
          ELSE ppc' = "sleep" /\ UNCHANGED <<stop_event, cancel_req>>
    /\ UNCHANGED <<program, serverVars, ws_open, evicted, spc, send_queue, produced, sent_count, got,
                   wstalled, finally_runs>>

\* an exception in the loop body: except Exception, then finally
ProducerError ==
    /\ IsClient
    /\ ppc = "encode"
    /\ Teardown
    /\ UNCHANGED <<program, serverVars, ws_open, evicted, spc, send_queue, produced, sent_count, got,
                   wstalled, finally_runs>>

\* sender_task from the top of its while loop to its next await
SenderLoop ==
    IF stop_event
    THEN /\ spc' = "done"
         /\ finally_runs' = finally_runs + 1
         /\ UNCHANGED <<send_queue, got>>
    ELSE IF send_queue = <<>>
    THEN /\ spc' = "get"
         /\ UNCHANGED <<send_queue, got, finally_runs>>
    ELSE /\ got' = Append(got, QueueGet(send_queue))
         /\ send_queue' = QueueRest(send_queue)
         /\ spc' = "send"
         /\ UNCHANGED finally_runs

\* the task created at line 121 runs for the first time
SenderStart ==
    /\ IsClient
    /\ spc = "pending"
    /\ ~cancel_req
    /\ SenderLoop
    /\ UNCHANGED <<program, serverVars, ws_open, evicted, ppc, stop_event, produced, sent_count, cancel_req,
                   wstalled>>

\* a get that is never woken by a later put_nowait
SenderGetNeverWoken == FALSE

\* await send_queue.get() returns
SenderGet ==
    /\ IsClient
    /\ spc = "get"
    /\ ~cancel_req
    /\ send_queue # <<>>
    /\ SenderLoop
    /\ UNCHANGED <<program, serverVars, ws_open, evicted, ppc, stop_event, produced, sent_count, cancel_req,
                   wstalled>>

\* a sender_task that goes on after CancelledError was requested
SendOkDespiteCancel ==
    /\ IsClient
    /\ spc = "send"
    /\ ~wstalled
    /\ sent_count' = sent_count + 1
    /\ SenderLoop
    /\ UNCHANGED <<program, serverVars, ws_open, evicted, ppc, stop_event, produced,
                   cancel_req, wstalled>>

\* await ws.send(data) returns
SendOk ==
    /\ IsClient
    /\ spc = "send"
    /\ ~cancel_req
    /\ ~wstalled
    /\ sent_count' = sent_count + 1
    /\ SenderLoop
    /\ UNCHANGED <<program, serverVars, ws_open, evicted, ppc, stop_event, produced, cancel_req, wstalled>>

\* await ws.send(data) raises: print, break, finally
SendFail ==
    /\ IsClient
    /\ spc = "send"
    /\ ~cancel_req
    /\ ~wstalled
    /\ spc' = "done"
    /\ stop_event' = TRUE
    /\ finally_runs' = finally_runs + 1
    /\ UNCHANGED <<program, serverVars, ws_open, evicted, ppc, send_queue, produced, sent_count, got,
                   cancel_req, wstalled>>

\* the peer stops reading: await ws.send(data) never returns
SendStalls ==
    /\ IsClient
    /\ spc = "send"
    /\ ~wstalled
    /\ wstalled' = TRUE
    /\ UNCHANGED <<program, serverVars, ws_open, evicted, ppc, spc, send_queue, stop_event, produced,
                   sent_count, got, cancel_req, finally_runs>>

\* CancelledError is thrown into sender_task at its await (a task that has
\* not started ends without entering its try)
SenderCancelled ==
    /\ IsClient
    /\ cancel_req
    /\ cancel_req' = FALSE
    /\ spc' = "cancelled"
    /\ IF spc = "pending"
       THEN UNCHANGED <<stop_event, finally_runs>>
       ELSE stop_event' = TRUE /\ finally_runs' = finally_runs + 1
    /\ UNCHANGED <<program, serverVars, ws_open, evicted, ppc, send_queue, produced, sent_count, got,
                   wstalled>>

\* send_frames leaves `async with websockets.connect(...) as ws` (line 92)
\* after the producer's finally: the connection is closed
ClientExit ==
    /\ IsClient
    /\ ppc = "closed"
    /\ ppc' = "exited"
    /\ ws_open' = FALSE
    /\ UNCHANGED <<program, serverVars, evicted, spc, send_queue, stop_event,
                   produced, sent_count, got, cancel_req, wstalled, finally_runs>>

\* sender_task's own transitions (everything but a cancellation from outside)
SenderNext == SenderStart \/ SenderGet \/ SendOk \/ SendFail

ClientNext ==
    \/ ProducerCapture
    \/ ProducerCaptureFail
    \/ ProducerSeesStop
    \/ ProducerPublish
    \/ ProducerSkipFrame
    \/ ProducerError
    \/ SenderStart
    \/ SenderGet
    \/ SendOk
    \/ SendFail
    \/ SendStalls
    \/ SenderCancelled
    \/ ClientExit

InitClient ==
    /\ ppc = "loop"
    /\ spc = "pending"
    /\ send_queue = <<>>
    /\ stop_event = FALSE
    /\ produced = 0
    /\ sent_count = 0
    /\ got = <<>>
    /\ cancel_req = FALSE
    /\ wstalled = FALSE
    /\ finally_runs = 0
    /\ ws_open = TRUE
    /\ evicted = {}

----------------------------------------------------------------------------
\* server.py

IsServer == program = "server"

Uploaders == {"u1", "u2"}
Viewers == {"v1", "v2"}

\* an event loop that resumes a coroutine while another is between its awaits
LoopAlwaysIdle == TRUE

\* The event loop resumes a coroutine only when no coroutine is running:
\* ws_stream and ws_view have no await between receiving or waking and
\* their next await.
LoopIdle == running = "none"

\* an acquire that does not wait
LockIgnored(l) == TRUE

\* threading.Lock.acquire() returns only when the lock is free
LockFree(l) == l = "free"

\* len(data): every frame counts as one unit of payload
DataLen(f) == IF f = None THEN 0 ELSE 1

\* await websocket.accept() in ws_stream, up to await receive_bytes()
StreamAccept(u) ==
    /\ IsServer
    /\ LoopIdle
    /\ upc[u] = "off"
    /\ upc' = [upc EXCEPT ![u] = "recv"]
    /\ UNCHANGED <<program, clientVars, slot, latest_lock, stats, running,
                   u_data, received, view, disp>>

\* data = await websocket.receive_bytes() returns the next message
StreamReceive(u) ==
    /\ IsServer
    /\ LoopIdle
    /\ upc[u] = "recv"
    /\ received < MaxUploads
    /\ received' = received + 1
    /\ u_data' = [u_data EXCEPT ![u] = received + 1]
    /\ upc' = [upc EXCEPT ![u] = "lock"]
    /\ running' = u
    /\ UNCHANGED <<program, clientVars, slot, latest_lock, stats, view, disp>>

\* receive_bytes() raises WebSocketDisconnect (or another exception): return
StreamDisconnect(u) ==
    /\ IsServer
    /\ LoopIdle
    /\ upc[u] = "recv"
    /\ upc' = [upc EXCEPT ![u] = "done"]
    /\ UNCHANGED <<program, clientVars, slot, latest_lock, stats, running,
                   u_data, received, view, disp>>

\* with _latest_lock: (line 62)
StreamLock(u) ==
    /\ IsServer
    /\ upc[u] = "lock"
    /\ LockFree(latest_lock)
    /\ latest_lock' = u
    /\ upc' = [upc EXCEPT ![u] = "setbytes"]
    /\ UNCHANGED <<program, clientVars, slot, stats, running, u_data, received,
                   view, disp>>

\* _latest_frame_bytes = data (line 63)
StreamSetBytes(u) ==
    /\ IsServer
    /\ upc[u] = "setbytes"
    /\ latest_frame_bytes' = u_data[u]
    /\ upc' = [upc EXCEPT ![u] = "setid"]
    /\ UNCHANGED <<program, clientVars, latest_frame_id, latest_lock, stats,
                   running, u_data, received, view, disp>>

\* the value line 64 stores
NextId(id) == id + 1

\* a ws_stream that updates the counters inside the with _latest_lock block
StreamSetIdKeepsLock(u) ==
    /\ IsServer
    /\ upc[u] = "setid"
    /\ latest_frame_id' = NextId(latest_frame_id)
    /\ upc' = [upc EXCEPT ![u] = "netlock"]
    /\ UNCHANGED <<program, clientVars, latest_frame_bytes, latest_lock, stats,
                   running, u_data, received, view, disp>>

\* _latest_frame_id += 1 (line 64) and the end of the with block
StreamSetId(u) ==
    /\ IsServer
    /\ upc[u] = "setid"
    /\ latest_frame_id' = NextId(latest_frame_id)
    /\ latest_lock' = "free"
    /\ upc' = [upc EXCEPT ![u] = "netlock"]
    /\ UNCHANGED <<program, clientVars, latest_frame_bytes, stats, running,
                   u_data, received, view, disp>>

\* with _network_lock: (line 66)
StreamNetLock(u) ==
    /\ IsServer
    /\ upc[u] = "netlock"
    /\ LockFree(network_lock)
    /\ network_lock' = u
    /\ upc' = [upc EXCEPT ![u] = "netadd"]
    /\ UNCHANGED <<program, clientVars, slot, latest_lock, recv_lock,
                   network_total_bytes, recv_total_count, running, u_data,
                   received, view, disp>>

\* _network_total_bytes += len(data) and the end of the with block
StreamNetAdd(u) ==
    /\ IsServer
    /\ upc[u] = "netadd"
    /\ network_total_bytes' = network_total_bytes + DataLen(u_data[u])
    /\ network_lock' = "free"
    /\ upc' = [upc EXCEPT ![u] = "recvlock"]
    /\ UNCHANGED <<program, clientVars, slot, latest_lock, recv_lock,
                   recv_total_count, running, u_data, received, view, disp>>

\* with _recv_lock: (line 69)
StreamRecvLock(u) ==
    /\ IsServer
    /\ upc[u] = "recvlock"
    /\ LockFree(recv_lock)
    /\ recv_lock' = u
    /\ upc' = [upc EXCEPT ![u] = "recvadd"]
    /\ UNCHANGED <<program, clientVars, slot, latest_lock, network_lock,
                   network_total_bytes, recv_total_count, running, u_data,
                   received, view, disp>>

\* _recv_total_count += 1, the end of the with block, and back to
\* await websocket.receive_bytes() (data is dead until it returns)
StreamRecvAdd(u) ==
    /\ IsServer
    /\ upc[u] = "recvadd"
    /\ recv_total_count' = recv_total_count + 1
    /\ recv_lock' = "free"
    /\ upc' = [upc EXCEPT ![u] = "recv"]
    /\ u_data' = [u_data EXCEPT ![u] = None]
    /\ running' = "none"
    /\ UNCHANGED <<program, clientVars, slot, latest_lock, network_lock,
                   network_total_bytes, received, view, disp>>

StreamNext(u) ==
    \/ StreamAccept(u)
    \/ StreamReceive(u)
    \/ StreamDisconnect(u)
    \/ StreamLock(u)
    \/ StreamSetBytes(u)
    \/ StreamSetId(u)
    \/ StreamNetLock(u)
    \/ StreamNetAdd(u)
    \/ StreamRecvLock(u)
    \/ StreamRecvAdd(u)

\* await websocket.accept() in ws_view, prev_id = -1, up to the first
\* await asyncio.sleep(0.033)
ViewAccept(v) ==
    /\ IsServer
    /\ LoopIdle
    /\ vpc[v] = "off"
    /\ vpc' = [vpc EXCEPT ![v] = "sleep"]
    /\ prev_id' = [prev_id EXCEPT ![v] = -1]
    /\ UNCHANGED <<program, clientVars, slot, latest_lock, stats, running, upl,
                   v_data, v_fid, v_sent, disp>>

\* await asyncio.sleep(0.033) returns
ViewWake(v) ==
    /\ IsServer
    /\ LoopIdle
    /\ vpc[v] = "sleep"
    /\ vpc' = [vpc EXCEPT ![v] = "lock"]
    /\ running' = v
    /\ UNCHANGED <<program, clientVars, slot, latest_lock, stats, upl, v_data,
                   v_fid, prev_id, v_sent, disp>>

\* with _latest_lock: (line 97)
ViewLock(v) ==
    /\ IsServer
    /\ vpc[v] = "lock"
    /\ LockFree(latest_lock)
    /\ latest_lock' = v
    /\ vpc' = [vpc EXCEPT ![v] = "rdata"]
    /\ UNCHANGED <<program, clientVars, slot, stats, running, upl, v_data,
                   v_fid, prev_id, v_sent, disp>>

\* data = _latest_frame_bytes (line 98)
ViewReadData(v) ==
    /\ IsServer
    /\ vpc[v] = "rdata"
    /\ v_data' = [v_data EXCEPT ![v] = latest_frame_bytes]
    /\ vpc' = [vpc EXCEPT ![v] = "rfid"]
    /\ UNCHANGED <<program, clientVars, slot, latest_lock, stats, running, upl,
                   v_fid, prev_id, v_sent, disp>>

\* the test without the comparison with prev_id
ViewSendsAnyFrame(data, fid, prev) == data # None

\* the test without the check for None
ViewSendsNone(data, fid, prev) == fid # prev

\* lines 100-104: data is not None and fid != prev_id
ViewShouldSend(data, fid, prev) == data # None /\ fid # prev

\* a ws_view that awaits send_bytes inside the with block
ViewReadIdSendsLocked(v) ==
    /\ IsServer
    /\ vpc[v] = "rfid"
    /\ running' = "none"
    /\ IF ViewShouldSend(v_data[v], latest_frame_id, prev_id[v])
       THEN /\ v_fid' = [v_fid EXCEPT ![v] = latest_frame_id]
            /\ vpc' = [vpc EXCEPT ![v] = "send"]
            /\ UNCHANGED <<v_data, latest_lock>>
       ELSE /\ v_fid' = [v_fid EXCEPT ![v] = 0]
            /\ v_data' = [v_data EXCEPT ![v] = None]
            /\ vpc' = [vpc EXCEPT ![v] = "sleep"]
            /\ latest_lock' = "free"
    /\ UNCHANGED <<program, clientVars, slot, stats, upl, prev_id, v_sent, disp>>

\* fid = _latest_frame_id (line 99), the end of the with block, and the two
\* tests: on to await send_bytes(data), or back to await asyncio.sleep
\* (data and fid are then dead until the next poll)
ViewReadId(v) ==
    /\ IsServer
    /\ vpc[v] = "rfid"
    /\ latest_lock' = "free"
    /\ running' = "none"
    /\ IF ViewShouldSend(v_data[v], latest_frame_id, prev_id[v])
       THEN /\ v_fid' = [v_fid EXCEPT ![v] = latest_frame_id]
            /\ vpc' = [vpc EXCEPT ![v] = "send"]
            /\ UNCHANGED v_data
       ELSE /\ v_fid' = [v_fid EXCEPT ![v] = 0]
            /\ v_data' = [v_data EXCEPT ![v] = None]
            /\ vpc' = [vpc EXCEPT ![v] = "sleep"]
    /\ UNCHANGED <<program, clientVars, slot, stats, upl, prev_id, v_sent, disp>>

\* a ws_view that notes the slot's id, not the id it sent, as prev_id
ViewSendOkMarksLatest(v) ==
    /\ IsServer
    /\ LoopIdle
    /\ vpc[v] = "send"
    /\ prev_id' = [prev_id EXCEPT ![v] = latest_frame_id]
    /\ v_sent' = [v_sent EXCEPT ![v] = v_fid[v]]
    /\ v_fid' = [v_fid EXCEPT ![v] = 0]
    /\ v_data' = [v_data EXCEPT ![v] = None]
    /\ vpc' = [vpc EXCEPT ![v] = "sleep"]
    /\ UNCHANGED <<program, clientVars, slot, latest_lock, stats, running, upl,
                   disp>>

\* await websocket.send_bytes(data) returns: prev_id = fid, then the sleep
ViewSendOk(v) ==
    /\ IsServer
    /\ LoopIdle
    /\ vpc[v] = "send"
    /\ prev_id' = [prev_id EXCEPT ![v] = v_fid[v]]
    /\ v_sent' = [v_sent EXCEPT ![v] = v_fid[v]]
    /\ v_fid' = [v_fid EXCEPT ![v] = 0]
    /\ v_data' = [v_data EXCEPT ![v] = None]
    /\ vpc' = [vpc EXCEPT ![v] = "sleep"]
    /\ UNCHANGED <<program, clientVars, slot, latest_lock, stats, running, upl,
                   disp>>

\* await websocket.send_bytes(data) raises: break
ViewSendFail(v) ==
    /\ IsServer
    /\ LoopIdle
    /\ vpc[v] = "send"
    /\ vpc' = [vpc EXCEPT ![v] = "done"]
    /\ UNCHANGED <<program, clientVars, slot, latest_lock, stats, running, upl,
                   v_data, v_fid, prev_id, v_sent, disp>>

\* the viewer stops reading: await websocket.send_bytes(data) never returns
ViewSendStalls(v) ==
    /\ IsServer
    /\ vpc[v] = "send"
    /\ vpc' = [vpc EXCEPT ![v] = "stalled"]
    /\ UNCHANGED <<program, clientVars, slot, latest_lock, stats, running, upl,
                   v_data, v_fid, prev_id, v_sent, disp>>

\* where a coroutine of the server waits in an await
ViewAwaiting(v) == vpc[v] \in {"sleep", "send", "stalled"}
StreamAwaiting(u) == upc[u] = "recv"

\* the application server shuts down: CancelledError is thrown into every
\* ws_view and ws_stream at its await, and each returns (lines 75-77, 116-118)
ServerShutdown ==
    /\ IsServer
    /\ LoopIdle
    /\ \/ \E v \in Viewers : ViewAwaiting(v)
       \/ \E u \in Uploaders : StreamAwaiting(u)
    /\ vpc' = [v \in Viewers |->
                 IF ViewAwaiting(v) THEN "cancelled" ELSE vpc[v]]
    /\ upc' = [u \in Uploaders |->
                 IF StreamAwaiting(u) THEN "done" ELSE upc[u]]
    /\ UNCHANGED <<program, clientVars, slot, latest_lock, stats, running,
                   u_data, received, v_data, v_fid, prev_id, v_sent, disp>>

\* ws_view's own transitions
ViewNext(v) ==
    \/ ViewAccept(v)
    \/ ViewWake(v)
    \/ ViewLock(v)
    \/ ViewReadData(v)
    \/ ViewReadId(v)
    \/ ViewSendOk(v)
    \/ ViewSendFail(v)

\* frame = None; with _latest_lock: (lines 145-146)
DisplayLock ==
    /\ IsServer
    /\ dpc = "top"
    /\ LockFree(latest_lock)
    /\ latest_lock' = "display"
    /\ d_frame' = None
    /\ dpc' = "cond"
    /\ UNCHANGED <<program, clientVars, slot, stats, running, upl, view, last_id,
                   d_decoded>>

\* line 147: _latest_frame_bytes is not None and _latest_frame_id != last_id
DisplayShouldDecode(bytes, id, last) == bytes # None /\ id # last

\* the test of line 147; when it fails the with block ends
DisplayCond ==
    /\ IsServer
    /\ dpc = "cond"
    /\ IF DisplayShouldDecode(latest_frame_bytes, latest_frame_id, last_id)
       THEN dpc' = "decode" /\ UNCHANGED latest_lock
       ELSE dpc' = "show" /\ latest_lock' = "free"
    /\ UNCHANGED <<program, clientVars, slot, stats, running, upl, view, d_frame,
                   last_id, d_decoded>>

\* lines 148-149: frame = cv2.imdecode(...), which yields None for bytes
\* that are no image
DisplayDecode ==
    /\ IsServer
    /\ dpc = "decode"
    /\ \E ok \in BOOLEAN :
          d_frame' = IF ok THEN latest_frame_bytes ELSE None
    /\ d_decoded' = latest_frame_id
    /\ dpc' = "setlast"
    /\ UNCHANGED <<program, clientVars, slot, latest_lock, stats, running, upl,
                   view, last_id>>

\* last_id = _latest_frame_id (line 150) and the end of the with block
DisplaySetLast ==
    /\ IsServer
    /\ dpc = "setlast"
    /\ last_id' = latest_frame_id
    /\ latest_lock' = "free"
    /\ dpc' = IF d_frame # None THEN "stats" ELSE "show"
    /\ UNCHANGED <<program, clientVars, slot, stats, running, upl, view, d_frame,
                   d_decoded>>

\* net_elapsed >= 1.0: with _network_lock: (line 161)
DisplayNetLock ==
    /\ IsServer
    /\ dpc = "stats"
    /\ LockFree(network_lock)
    /\ network_lock' = "display"
    /\ dpc' = "netread"
    /\ UNCHANGED <<program, clientVars, slot, latest_lock, recv_lock,
                   network_total_bytes, recv_total_count, running, upl, view,
                   d_frame, last_id, d_decoded>>

\* current_total = _network_total_bytes and the end of the with block
DisplayNetRead ==
    /\ IsServer
    /\ dpc = "netread"
    /\ network_lock' = "free"
    /\ dpc' = "stats2"
    /\ UNCHANGED <<program, clientVars, slot, latest_lock, recv_lock,
                   network_total_bytes, recv_total_count, running, upl, view,
                   d_frame, last_id, d_decoded>>

\* net_elapsed < 1.0
DisplayNetSkip ==
    /\ IsServer
    /\ dpc = "stats"
    /\ dpc' = "stats2"
    /\ UNCHANGED <<program, clientVars, slot, latest_lock, stats, running, upl,
                   view, d_frame, last_id, d_decoded>>

\* recv_elapsed >= 1.0: with _recv_lock: (line 169)
DisplayRecvLock ==
    /\ IsServer
    /\ dpc = "stats2"
    /\ LockFree(recv_lock)
    /\ recv_lock' = "display"
    /\ dpc' = "recvread"
    /\ UNCHANGED <<program, clientVars, slot, latest_lock, network_lock,
                   network_total_bytes, recv_total_count, running, upl, view,
                   d_frame, last_id, d_decoded>>

\* current_recv_total = _recv_total_count and the end of the with block
DisplayRecvRead ==
    /\ IsServer
    /\ dpc = "recvread"
    /\ recv_lock' = "free"
    /\ dpc' = "show"
    /\ UNCHANGED <<program, clientVars, slot, latest_lock, network_lock,
                   network_total_bytes, recv_total_count, running, upl, view,
                   d_frame, last_id, d_decoded>>

\* recv_elapsed < 1.0
DisplayRecvSkip ==
    /\ IsServer
    /\ dpc = "stats2"
    /\ dpc' = "show"
    /\ UNCHANGED <<program, clientVars, slot, latest_lock, stats, running, upl,
                   view, d_frame, last_id, d_decoded>>

\* cv2.imshow, cv2.waitKey(1): 'q' breaks out of the loop, anything else
\* starts the next iteration
DisplayShow ==
    /\ IsServer
    /\ dpc = "show"
    /\ \E key \in {"q", "none"} :
          dpc' = IF key = "q" THEN "done" ELSE "top"
    /\ d_frame' = None
    /\ UNCHANGED <<program, clientVars, slot, latest_lock, stats, running, upl,
                   view, last_id, d_decoded>>

DisplayNext ==
    \/ DisplayLock
    \/ DisplayCond
    \/ DisplayDecode
    \/ DisplaySetLast
    \/ DisplayNetLock
    \/ DisplayNetRead
    \/ DisplayNetSkip
    \/ DisplayRecvLock
    \/ DisplayRecvRead
    \/ DisplayRecvSkip
    \/ DisplayShow

ServerNext ==
    \/ \E u \in Uploaders : StreamNext(u)
    \/ \E v \in Viewers : ViewNext(v) \/ ViewSendStalls(v)
    \/ ServerShutdown
    \/ DisplayNext

InitServer ==
    /\ latest_frame_bytes = None
    /\ latest_frame_id = 0
    /\ latest_lock = "free"
    /\ network_lock = "free"
    /\ recv_lock = "free"
    /\ network_total_bytes = 0
    /\ recv_total_count = 0
    /\ received = 0
    /\ running = "none"
    /\ upc = [u \in Uploaders |-> "off"]
    /\ u_data = [u \in Uploaders |-> None]
    /\ vpc = [v \in Viewers |-> "off"]
    /\ v_data = [v \in Viewers |-> None]
    /\ v_fid = [v \in Viewers |-> 0]
    /\ prev_id = [v \in Viewers |-> -1]
    /\ v_sent = [v \in Viewers |-> 0]
    /\ dpc = "top"
    /\ d_frame = None
    /\ last_id = 0
    /\ d_decoded = 0

----------------------------------------------------------------------------

Init ==
    /\ program \in {"client", "server"}
    /\ InitClient
    /\ InitServer

Next == ClientNext \/ ServerNext

Spec == Init /\ [][Next]_vars

\* client.py run on its own
ClientInit == IsClient /\ InitClient /\ InitServer

ClientSpec == ClientInit /\ [][ClientNext]_vars

\* the event loop resumes every coroutine whose await has completed: the
\* encoder job and the sleep end, a write that neither fails nor stalls
\* returns, a get on a queue that holds a frame returns, a requested
\* cancellation is delivered
ClientFairness ==
    /\ WF_vars(ProducerSeesStop)
    /\ WF_vars(ProducerPublish \/ ProducerSkipFrame \/ ProducerError)
    /\ WF_vars(SenderStart)
    /\ WF_vars(SenderGet)
    /\ WF_vars(SendOk)
    /\ WF_vars(SenderCancelled)

FairClientSpec == ClientSpec /\ ClientFairness

\* server.py run on its own
ServerInit == IsServer /\ InitClient /\ InitServer

\* ws_view from the end of its sleep to the return of send_bytes
ViewRun(v) ==
    \/ ViewWake(v)
    \/ ViewLock(v)
    \/ ViewReadData(v)
    \/ ViewReadId(v)
    \/ ViewSendOk(v)

\* ws_stream from the message received to the next receive_bytes
StreamRun(u) ==
    \/ StreamLock(u)
    \/ StreamSetBytes(u)
    \/ StreamSetId(u)
    \/ StreamNetLock(u)
    \/ StreamNetAdd(u)
    \/ StreamRecvLock(u)
    \/ StreamRecvAdd(u)

\* the server with one upload connection, one viewer and the display thread
OneViewerNext ==
    \/ StreamNext("u1")
    \/ ViewNext("v1")
    \/ ViewSendStalls("v1")
    \/ ServerShutdown
    \/ DisplayNext

\* the event loop runs its ready coroutines in turn, a thread waiting for a
\* lock gets it when it is released again and again, and the display
\* thread keeps running
OneViewerFairness ==
    /\ SF_vars(ViewRun("v1"))
    /\ SF_vars(StreamRun("u1"))
    /\ WF_vars(DisplayNext)

FairViewSpec == ServerInit /\ [][OneViewerNext]_vars /\ OneViewerFairness

----------------------------------------------------------------------------
\* Properties

\* uploads whose slot write (lines 62-64) has finished
Completed ==
    received - Cardinality({u \in Uploaders :
                               upc[u] \in {"lock", "setbytes", "setid"}})

\* C1: whenever no ws_stream is inside its slot write, the slot holds the
\* N-th frame received and id N, N being the number of uploads completed
\* (None and 0 before the first); this is what any reader then reads under
\* _latest_lock.
C1_LatestIsNth ==
    (IsServer /\ latest_lock \notin Uploaders) =>
        /\ latest_frame_id = Completed
        /\ latest_frame_bytes = Completed

\* three uploads from two connected uploaders are complete and a viewer is
\* reading the slot under the lock
C1_Witness ==
    /\ IsServer
    /\ Completed = 3
    /\ upc["u1"] = "recv"
    /\ upc["u2"] = "recv"
    /\ \E v \in Viewers : latest_lock = v /\ vpc[v] = "rfid" /\ v_data[v] = 3

\* C2: when more than QueueMaxSize frames have been published and
\* sender_task has taken none, send_queue holds the QueueMaxSize newest
\* frames in production order.
C2_BurstKeepsNewest ==
    (IsClient /\ got = <<>> /\ produced > QueueMaxSize) =>
        send_queue = [i \in 1..QueueMaxSize |-> produced - QueueMaxSize + i]

\* two frames beyond the capacity were published with nothing taken
C2_Witness ==
    /\ IsClient
    /\ got = <<>>
    /\ produced = QueueMaxSize + 2
    /\ Len(send_queue) = QueueMaxSize

\* C3: whenever the producer holds an encoded frame, its publish step can be
\* taken at once, whatever the queue holds and whatever sender_task is doing.
C3_PublishNeverWaits ==
    (IsClient /\ ppc = "encode") => ENABLED ProducerPublish

\* the queue is full and sender_task is stuck in a write that never returns
C3_Witness ==
    /\ IsClient
    /\ ppc = "encode"
    /\ Len(send_queue) = QueueMaxSize
    /\ spc = "send"
    /\ wstalled

\* C4: a session whose transport write never completes is not left waiting:
\* it has a step of its own (the timeout) to take.
C4_StalledWriteTimesOut ==
    /\ (IsClient /\ spc = "send" /\ wstalled) => ENABLED SenderNext
    /\ \A v \in Viewers :
          (IsServer /\ vpc[v] = "stalled") => ENABLED ViewNext(v)

\* the frames ws.send has written, in order
Written == SubSeq(got, 1, sent_count)

\* C5: the frames written to the transport are frames that were produced,
\* in strictly increasing order of production.
C5_WrittenIncreasing ==
    IsClient =>
        /\ sent_count <= Len(got)
        /\ \A i \in 1..sent_count : Written[i] \in 1..produced
        /\ \A i, j \in 1..sent_count : i < j => Written[i] < Written[j]

\* three frames were written and one in between was skipped by an eviction
C5_Witness ==
    /\ IsClient
    /\ sent_count >= 3
    /\ \E i \in 1..(sent_count - 1) : Written[i + 1] > Written[i] + 1

\* what the readers hold after reading the slot: bytes and id of one upload
\* (the n-th frame received was stored with id n), or None
ReadersConsistent ==
    /\ \A v \in Viewers :
          /\ vpc[v] = "rfid" => v_data[v] = latest_frame_id
          /\ vpc[v] \in {"send", "stalled"} => v_data[v] = v_fid[v]
    /\ (dpc \in {"stats", "netread", "stats2", "recvread", "show"}
          /\ d_frame # None) => d_frame = last_id

\* C6: _latest_frame_id never decreases, and every pair of bytes and id a
\* reader obtains was written by one upload.
C6_MonotoneAndUntorn ==
    /\ [](IsServer => ReadersConsistent)
    /\ [][latest_frame_id' >= latest_frame_id]_vars

\* the display loop shows frame 2 with id 2 after one uploader has gone and
\* the other is connected, while a viewer is sending frame 1 with id 1
C6_Witness ==
    /\ IsServer
    /\ dpc = "show" /\ d_frame = 2 /\ last_id = 2
    /\ upc["u1"] = "done" /\ upc["u2"] = "recv"
    /\ vpc["v1"] = "send" /\ v_data["v1"] = 1 /\ v_fid["v1"] = 1

\* C7: a ws_stream that has received a frame can take _latest_lock at once,
\* whatever the readers are doing.
C7_SetNeverBlocks ==
    \A u \in Uploaders : (IsServer /\ upc[u] = "lock") => ENABLED StreamLock(u)

\* C8: every send_bytes that returns carried an id greater than the one
\* before; prev_id changes only when a send returns, to the id sent; every
\* imdecode is of an id greater than the one decoded before; a poll that
\* finds the id unchanged neither sends nor decodes.
C8_NoVersionTwice ==
    [][/\ \A v \in Viewers :
             /\ (vpc[v] = "send" /\ vpc'[v] = "sleep") =>
                    /\ v_fid[v] > v_sent[v]
                    /\ prev_id'[v] = v_fid[v]
             /\ prev_id'[v] # prev_id[v] =>
                    (vpc[v] = "send" /\ vpc'[v] = "sleep")
             /\ (vpc[v] = "rfid" /\ latest_frame_id = prev_id[v]) =>
                    vpc'[v] \in {"rfid", "sleep"}
       /\ (dpc = "decode" /\ dpc' = "setlast") => latest_frame_id > d_decoded
       /\ (dpc = "cond" /\ latest_frame_id = last_id /\ dpc' # dpc) =>
              dpc' = "show"
      ]_vars

\* a viewer that sent id 1 is sending id 3, the display loop having decoded
\* id 2 and now polling an unchanged slot
C8_Witness ==
    /\ IsServer
    /\ v_sent["v1"] = 1 /\ vpc["v1"] = "send" /\ v_fid["v1"] = 3
    /\ d_decoded = 3 /\ last_id = 3 /\ dpc = "cond"

\* C9: while the slot has never been written no viewer sends and the display
\* loop decodes nothing, every read yielding None; before any message is
\* received the slot is None, and once it holds a frame it never holds None
\* again.
C9_EmptyUntilFirstFrame ==
    /\ [](IsServer =>
            /\ received = 0 => latest_frame_bytes = None
            /\ latest_frame_bytes = None =>
                  /\ \A v \in Viewers :
                        /\ vpc[v] \notin {"send", "stalled"}
                        /\ v_data[v] = None
                        /\ v_sent[v] = 0
                  /\ dpc \notin {"decode", "setlast"}
                  /\ d_frame = None
                  /\ d_decoded = 0)
    /\ [][latest_frame_bytes # None => latest_frame_bytes' # None]_vars

\* a viewer has read None from the never-written slot while a first message
\* is on its way, the display loop having found nothing to decode
C9_Witness ==
    /\ IsServer
    /\ latest_frame_bytes = None
    /\ vpc["v1"] = "rfid" /\ v_data["v1"] = None
    /\ upc["u1"] = "recv"
    /\ dpc = "show"

SenderEnded == spc \in {"done", "cancelled"}

ProducerEnded == ppc \in {"closed", "exited"}

\* C10: sender_task's finally block runs at most once (exactly once when the
\* task ends by its own failure path); an ended task stays as it ended,
\* whatever the producer's teardown does afterwards; stop_event, once set,
\* stays set; and when both the task and the producer loop have ended,
\* stop_event is set and no cancellation is left pending.
C10_TeardownOnce ==
    /\ [](IsClient =>
            /\ finally_runs <= 1
            /\ spc = "done" => finally_runs = 1
            /\ (SenderEnded \/ ProducerEnded) => stop_event
            /\ (SenderEnded /\ ProducerEnded) => ~cancel_req)
    /\ [][/\ SenderEnded => UNCHANGED <<spc, finally_runs, cancel_req>>
          /\ stop_event => stop_event'
         ]_vars

\* sender_task ended on a failed write and the producer's finally ran after
\* it
C10_Witness ==
    /\ IsClient
    /\ spc = "done"
    /\ ppc = "closed"
    /\ finally_runs = 1
    /\ sent_count >= 1

\* the locals and the record of one ws_view
ViewState(v) == <<vpc[v], v_data[v], v_fid[v], prev_id[v], v_sent[v]>>

\* C11: a ws_view that is sending, stalled in its send or ended by a failed
\* send holds no lock and does not occupy the event loop, so a coroutine
\* that wants _latest_lock never finds it held by a viewer; and the step in
\* which a send fails or stalls changes nothing but that viewer's position:
\* not the slot, not the locks, not an uploader, not another viewer.
C11_ViewerFailureContained ==
    /\ [](IsServer =>
            /\ \A v \in Viewers :
                  vpc[v] \in {"send", "stalled", "done"} =>
                      /\ latest_lock # v
                      /\ network_lock # v
                      /\ recv_lock # v
                      /\ running # v
            /\ \A u \in Uploaders :
                  upc[u] = "lock" => latest_lock \notin Viewers
            /\ \A w \in Viewers :
                  vpc[w] = "lock" => latest_lock \notin Viewers)
    /\ [][\A v \in Viewers :
             (vpc[v] = "send" /\ vpc'[v] \in {"stalled", "done"}) =>
                 /\ UNCHANGED <<slot, latest_lock, stats, running, upl, disp>>
                 /\ \A w \in Viewers \ {v} : ViewState(w)' = ViewState(w)
         ]_vars

\* one viewer is stalled sending frame 1 while two more frames were
\* accepted and the other viewer has sent frame 3
C11_Witness ==
    /\ IsServer
    /\ vpc["v1"] = "stalled" /\ v_fid["v1"] = 1
    /\ latest_frame_id = 3
    /\ v_sent["v2"] = 3
    /\ upc["u1"] = "recv"

\* C12: a session that has ended on a failed write closed the transport
\* before it ended, and an ended session stays ended and writes no more.
C12_ClosesThenTerminates ==
    /\ []((IsClient /\ spc = "done") => ~ws_open)
    /\ [][/\ spc = "done" =>
                (spc' = "done" /\ got' = got /\ sent_count' = sent_count)
          /\ \A v \in Viewers :
                vpc[v] = "done" => (vpc'[v] = "done" /\ v_sent'[v] = v_sent[v])
         ]_vars

\* C13: once cancellation of sender_task is requested it can be delivered,
\* and until the task has ended as cancelled it takes no frame and completes
\* no write; a cancelled sender_task or ws_view stays cancelled, writes
\* nothing more and holds neither a lock nor the event loop.
C13_CancelStopsWrites ==
    /\ [](IsClient => (cancel_req => (~SenderEnded /\ ENABLED SenderCancelled)))
    /\ [][/\ cancel_req =>
                /\ got' = got
                /\ sent_count' = sent_count
                /\ spc' \in {spc, "cancelled"}
          /\ spc = "cancelled" =>
                (spc' = "cancelled" /\ got' = got /\ sent_count' = sent_count)
          /\ \A v \in Viewers :
                /\ vpc'[v] = "cancelled" =>
                      /\ v_sent'[v] = v_sent[v]
                      /\ latest_lock' # v
                      /\ running' # v
                /\ vpc[v] = "cancelled" => vpc'[v] = "cancelled"
         ]_vars

\* sender_task was cancelled in a write, after one good write, with frames
\* still queued
C13_Witness ==
    /\ IsClient
    /\ spc = "cancelled"
    /\ finally_runs = 1
    /\ sent_count = 1
    /\ Len(got) = 2
    /\ Len(send_queue) >= 2

\* C14: a publish evicts at most one queued frame, only from a full queue,
\* and then the oldest one; into a queue that is not full the frame is
\* appended and nothing is evicted; every published frame is in exactly one
\* of: the queue, the frames sender_task has taken, the evicted frames.
C14_EvictsOldestOnlyWhenFull ==
    /\ [](\A f \in 1..produced :
            /\ f \in Range(send_queue) \cup Range(got) \cup evicted
            /\ ~(f \in Range(send_queue) /\ f \in Range(got))
            /\ ~(f \in Range(send_queue) /\ f \in evicted)
            /\ ~(f \in Range(got) /\ f \in evicted))
    /\ [][/\ evicted' # evicted =>
                /\ produced' = produced + 1
                /\ Len(send_queue) = QueueMaxSize
                /\ evicted' = evicted \cup {Head(send_queue)}
                /\ send_queue' = Append(Tail(send_queue), produced')
          /\ (produced' = produced + 1 /\ Len(send_queue) < QueueMaxSize) =>
                /\ send_queue' = Append(send_queue, produced')
                /\ evicted' = evicted
         ]_vars

\* frame 1 was evicted by the publish of frame 5 while sender_task had not
\* yet run; later frames were published into a queue with room
C14_Witness ==
    /\ evicted = {1}
    /\ produced = MaxProduce
    /\ got = <<2, 3>>
    /\ send_queue = <<4, 5, 6>>

\* C15: the enqueue step never raises into the producer loop: with an
\* encoded frame at hand the publish can always be taken and leads on to the
\* loop's sleep, whatever the queue holds; it is one step, and a frame that
\* is not in the queue after it has left the queued frames as they were,
\* but for the one evicted.
C15_PublishNeverRaises ==
    /\ [](ppc = "encode" => ENABLED (ProducerPublish /\ ppc' = "sleep"))
    /\ [][produced' = produced + 1 =>
            /\ ppc = "encode" /\ ppc' \in {"sleep", "closed"}
            /\ LET rest == IF send_queue = <<>> THEN <<>> ELSE Tail(send_queue)
               IN  IF produced' \in Range(send_queue')
                   THEN send_queue' \in {Append(send_queue, produced'),
                                         Append(rest, produced')}
                   ELSE send_queue' \in {send_queue, rest}
         ]_vars

\* the producer has published into a full queue before sender_task ever
\* ran, and has gone on to its sleep
C15_Witness ==
    /\ ppc = "sleep"
    /\ spc = "pending"
    /\ produced = QueueMaxSize + 1
    /\ Len(send_queue) = QueueMaxSize
    /\ evicted = {1}

\* C18: right after every publish the published frame is the tail of the
\* send queue: the retry after an eviction always succeeds.
C18_PublishedFrameIsTail ==
    [][produced' = produced + 1 =>
          /\ send_queue' # <<>>
          /\ send_queue'[Len(send_queue')] = produced'
          /\ produced' \notin evicted'
      ]_vars

\* the sixth frame has just been put after the eviction of the second
C18_Witness ==
    /\ send_queue = <<3, 4, 5, 6>>
    /\ evicted = {2}
    /\ got = <<1>>
    /\ ppc = "sleep"

\* C19: the send queue never holds more than QueueMaxSize frames.
C19_QueueBounded == Len(send_queue) \in 0..QueueMaxSize

\* the queue is full although MaxProduce frames were published into it
\* while the only write was stalled
C19_Witness ==
    /\ Len(send_queue) = QueueMaxSize
    /\ produced = MaxProduce
    /\ wstalled
    /\ sent_count = 0
    /\ Cardinality(evicted) = 1

\* C16: shutdown propagates both ways and completes: once sender_task has
\* ended by itself the producer loop eventually exits; once the producer
\* loop has exited sender_task eventually ends, also from a get on an empty
\* queue or a stalled write; once stop_event is set both eventually end,
\* and stop_event is never cleared.
C16_ShutdownCompletes ==
    /\ (spc = "done") ~> ProducerEnded
    /\ ProducerEnded ~> SenderEnded
    /\ stop_event ~> (ProducerEnded /\ SenderEnded)
    /\ [][stop_event => stop_event']_vars

\* the capture failed before any frame; sender_task, suspended on the empty
\* queue, was cancelled and ran its finally; send_frames has returned
C16_Witness ==
    /\ ppc = "exited"
    /\ spc = "cancelled"
    /\ finally_runs = 1
    /\ produced = 0
    /\ got = <<>>
    /\ stop_event

\* C17: while the session is active and writes succeed, every frame in the
\* send queue is eventually written by sender_task or evicted by a later
\* publish (unless the session stops or a write stalls first).
C17_QueuedFrameLeaves ==
    \A f \in 1..MaxProduce :
        (f \in Range(send_queue)) ~>
            (f \in Range(Written) \/ f \in evicted \/ stop_event \/ wstalled)

\* the session is still active, the queue is drained, and every published
\* frame was either written or evicted
C17_Witness ==
    /\ ~stop_event
    /\ ~wstalled
    /\ produced = MaxProduce
    /\ send_queue = <<>>
    /\ evicted = {1, 2}
    /\ Written = <<3, 4, 5, 6>>

\* a ws_view session that is connected and whose sends have not failed
ViewConnected(v) == vpc[v] \in {"sleep", "lock", "rdata", "rfid", "send"}

\* C20: a ws_view that stays connected with its sends succeeding eventually
\* sends a frame with an id of at least the id the slot holds; and the frame
\* and id it sends are the ones the slot held at the poll before the send.
C20_ViewerCatchesUp ==
    /\ \A v \in Viewers : \A n \in 1..MaxUploads :
          (latest_frame_id = n /\ ViewConnected(v)) ~>
              (v_sent[v] >= n \/ ~ViewConnected(v))
    /\ [](\A v \in Viewers : vpc[v] \in {"send", "stalled"} =>
              (v_data[v] = v_fid[v] /\ v_fid[v] > prev_id[v]))
    /\ [][\A v \in Viewers :
            /\ (vpc[v] = "rfid" /\ vpc'[v] = "send") =>
                  /\ latest_lock = v
                  /\ v_fid'[v] = latest_frame_id
                  /\ v_data'[v] = latest_frame_bytes
            /\ v_sent'[v] # v_sent[v] =>
                  (vpc[v] = "send" /\ v_sent'[v] = v_fid[v])
         ]_vars

\* viewer v1 connected after the first frame, and has sent the last frame
\* while the display thread is still decoding the one before
C20_Witness ==
    /\ IsServer
    /\ latest_frame_id = MaxUploads
    /\ received = MaxUploads
    /\ v_sent["v1"] = MaxUploads
    /\ prev_id["v1"] = MaxUploads
    /\ vpc["v1"] = "sleep"
    /\ d_decoded = MaxUploads - 1
    /\ dpc = "stats"

\* the threads of control of the server
Procs == Uploaders \cup Viewers \cup {"display"}

\* where a thread of control stands
Pos(p) == IF p \in Uploaders THEN upc[p] ELSE IF p \in Viewers THEN vpc[p] ELSE dpc

\* how many of the three locks p holds
HeldBy(p) ==
    (IF latest_lock = p THEN 1 ELSE 0) + (IF network_lock = p THEN 1 ELSE 0)
        + (IF recv_lock = p THEN 1 ELSE 0)

\* p is at a with statement, about to acquire a lock
Acquiring(p) ==
    IF p \in Uploaders THEN upc[p] \in {"lock", "netlock", "recvlock"}
    ELSE IF p \in Viewers THEN vpc[p] = "lock"
    ELSE dpc \in {"top", "stats", "stats2"}

\* p is suspended in an await, has not started or has ended (the display
\* thread: is in imshow / waitKey or has ended)
Suspended(p) ==
    IF p \in Uploaders THEN upc[p] \in {"off", "recv", "done"}
    ELSE IF p \in Viewers
    THEN vpc[p] \in {"off", "sleep", "send", "stalled", "done", "cancelled"}
    ELSE dpc \in {"show", "done"}

\* the statements p has left inside the with block it is in
StepsToRelease(p) ==
    IF p \in Uploaders
    THEN CASE upc[p] = "setbytes" -> 2
           [] upc[p] \in {"setid", "netadd", "recvadd"} -> 1
           [] OTHER -> 0
    ELSE IF p \in Viewers
    THEN CASE vpc[p] = "rdata" -> 2
           [] vpc[p] = "rfid" -> 1
           [] OTHER -> 0
    ELSE CASE dpc = "cond" -> 3
           [] dpc = "decode" -> 2
           [] dpc \in {"setlast", "netread", "recvread"} -> 1
           [] OTHER -> 0

\* the statements inside the with blocks
InsideLock(p) ==
    IF p \in Uploaders
    THEN StreamSetBytes(p) \/ StreamSetId(p) \/ StreamNetAdd(p) \/ StreamRecvAdd(p)
    ELSE IF p \in Viewers
    THEN ViewReadData(p) \/ ViewReadId(p)
    ELSE DisplayCond \/ DisplayDecode \/ DisplaySetLast \/ DisplayNetRead
            \/ DisplayRecvRead

\* C21: no thread of control holds more than one of the three locks, holds
\* one while acquiring another, or holds one while suspended in an await
\* (a coroutine that holds a lock is the one the event loop is running);
\* the holder of a lock can always take its next statement, which needs no
\* lock, and each statement it takes brings it nearer to the end of its
\* with block, where the lock is released: no deadlock, and every lock
\* acquired is released.
C21_LocksNeverNested ==
    /\ [](IsServer => \A p \in Procs :
            /\ HeldBy(p) <= 1
            /\ (Acquiring(p) \/ Suspended(p)) => HeldBy(p) = 0
            /\ HeldBy(p) = 1 =>
                  /\ StepsToRelease(p) > 0
                  /\ ENABLED InsideLock(p)
                  /\ p # "display" => running = p)
    /\ [][\A p \in Procs :
            /\ (HeldBy(p) = 1 /\ Pos(p)' # Pos(p)) =>
                  /\ StepsToRelease(p)' < StepsToRelease(p)
                  /\ StepsToRelease(p)' = 0 => HeldBy(p)' = 0
            /\ (HeldBy(p) = 0 /\ HeldBy(p)' = 1) => Acquiring(p)
         ]_vars

\* the display thread decodes under _latest_lock while ws_stream u2, which
\* waited for it to store the third frame, updates its counter under
\* _recv_lock, a viewer is in a send and another waits for the event loop
C21_Witness ==
    /\ IsServer
    /\ latest_lock = "display"
    /\ dpc = "decode"
    /\ recv_lock = "u2"
    /\ latest_frame_id = MaxUploads
    /\ vpc["v1"] = "send"
    /\ vpc["v2"] = "sleep"
    /\ upc["u1"] = "recv"

====
